---- MODULE Spec2Model ----
(***************************************************************************)
(* Model of rag-extension-poc: main.go (main, run, fetchPublicKey,         *)
(* convertDocx) and config/info.go (config.New), together with the request *)
(* handlers that run() registers (packages agent and oauth).               *)
(*                                                                         *)
(* Four specifications share the variables:                                *)
(*   SpecFetch  fetchPublicKey applied to every key-listing response       *)
(*   SpecDocx   convertDocx, statement by statement                        *)
(*   Spec       the process: main -> convertDocx -> run -> serving /agent  *)
(*   SpecOAuth  the /auth/authorization and /auth/callback handlers        *)
(***************************************************************************)
EXTENDS Integers, Sequences, FiniteSets, TLC

VARIABLES
    \* ---- fetchPublicKey as a function of the endpoint's response
    resp,          \* the key-listing response handed to fetchPublicKey
    fetched,       \* what fetchPublicKey returned for resp, NotCalled before
    \* ---- convertDocx
    dpc,           \* position inside convertDocx
    documents,     \* names in ./documents
    data,          \* names in ./data
    processed,     \* names in ./documents/processed
    files,         \* the listing os.ReadDir returned
    idx,           \* index of the loop variable `file` in files
    text,          \* result of extractTextFromDocx for the current file
    docxErr,       \* convertDocx's return value
    ops,           \* file-system operations performed so far, in order
    failures,      \* files on which extraction, write or rename failed
    \* ---- the process (main, run, config.New, the /agent handler)
    pc,            \* position of main/run
    env,           \* the environment variables config.New reads
    stdout,        \* lines written to standard output / the log
    exitCode,      \* exit status of the process, NoExit while it runs
    pubKey,        \* run's local pubKey
    runErr,        \* error returned by run
    config,        \* run's local config (*config.Info)
    handlers,      \* patterns registered with http.HandleFunc
    agentKey,      \* key held by the agent service
    platformKey,   \* the key the platform currently signs with
    rotations,     \* number of platform-side key rotations so far
    fetchCount,    \* number of calls to the key-listing endpoint
    reqs,          \* the inbound POST /agent requests
    \* ---- the OAuth handlers
    store,         \* SessionStore: the live state tokens
    issued,        \* number of state tokens issued by PreAuth
    expired,       \* state tokens evicted by expiry
    cbs            \* the callbacks on GET /auth/callback

fetchVars == <<resp, fetched>>
docxVars  == <<dpc, documents, data, processed, files, idx, text, docxErr, ops, failures>>
procVars  == <<pc, env, stdout, exitCode, pubKey, runErr, config, handlers,
               agentKey, platformKey, rotations, fetchCount, reqs>>
oauthVars == <<store, issued, expired, cbs>>
vars      == <<fetchVars, docxVars, procVars, oauthVars>>

Nil == "nil"

\* One line of output (fmt.Println, fmt.Printf, log.Printf, log.Fatalf):
\* the text and the value printed with it.
Line(t, v) == [text |-> t, value |-> v]

(***************************************************************************)
(* Bounds                                                                  *)
(***************************************************************************)
MaxKeys == 2
MaxFiles == 3
MaxRequests == 2
MaxRotations == 1
MaxTokens == 2
MaxCallbacks == 2

\* ------------------------------------------------------------------------
\* fetchPublicKey (main.go:70-142)
\* ------------------------------------------------------------------------

StatusOK == 200

\* The key types x509.ParsePKIXPublicKey can produce here.
EcKeys == {"ec1", "ec2"}

\* The "key" string of one entry. esc: newlines are the two characters \n
\* (as the endpoint sends them) rather than line breaks; armor: the text is
\* a PEM block; der: what the block's bytes hold.
EmptyText   == [esc |-> FALSE, armor |-> FALSE, der |-> "none"]
GarbageText == [esc |-> FALSE, armor |-> FALSE, der |-> "junk"]
KeyTexts ==
    {EmptyText, GarbageText}
      \cup [esc : BOOLEAN, armor : {TRUE}, der : {"junk", "rsa"} \cup EcKeys]

Entries == [key : KeyTexts, is_current : BOOLEAN]

RECURSIVE SeqsUpTo(_, _)
SeqsUpTo(S, n) ==
    IF n = 0 THEN {<<>>}
    ELSE LET shorter == SeqsUpTo(S, n - 1)
         IN  shorter \cup {Append(s, e) : s \in {t \in shorter : Len(t) = n - 1}, e \in S}

KeyLists == SeqsUpTo(Entries, MaxKeys)

\* What client.Do and the body hold: err (transport error), the status code,
\* whether the body is a JSON document of the expected shape, and its list.
Responses ==
    {[err |-> TRUE, status |-> 0, json |-> FALSE, public_keys |-> <<>>]}
      \cup [err : {FALSE}, status : {404, 500}, json : {FALSE}, public_keys : {<<>>}]
      \cup [err : {FALSE}, status : {StatusOK}, json : {FALSE}, public_keys : {<<>>}]
      \cup [err : {FALSE}, status : {StatusOK}, json : {TRUE}, public_keys : KeyLists]

\* strings.ReplaceAll(rawKey, "\\n", "\n")
ReplaceAllNewlines(t) == [t EXCEPT !.esc = FALSE]

\* pem.Decode: the block's bytes, or Nil when the text holds no PEM block.
\* A block is only found when its lines are separated by real line breaks.
pemDecode(t) == IF t.armor /\ ~t.esc THEN t.der ELSE Nil

\* x509.ParsePKIXPublicKey: the key, or Nil (an error) for bytes that are no
\* PKIX structure.
ParsePKIXPublicKey(der) == IF der \in EcKeys \cup {"rsa"} THEN der ELSE Nil

\* The loop of main.go:111-117: rawKey of the first entry with IsCurrent,
\* the empty string when the loop ends without a break.
RECURSIVE selectFrom(_, _)
selectFrom(keys, i) ==
    IF i > Len(keys) THEN EmptyText
    ELSE IF keys[i].is_current THEN keys[i].key
    ELSE selectFrom(keys, i + 1)

\* Variant of selectCurrent: the first entry, whatever its flag.
selectCurrentAny(keys) == IF Len(keys) = 0 THEN EmptyText ELSE keys[1].key

selectCurrent(keys) == selectFrom(keys, 1)

Ok(k) == [key |-> k, err |-> Nil]
Fail(site) == [key |-> Nil, err |-> site]

decodeKey(rawKey) ==
    LET block == pemDecode(ReplaceAllNewlines(rawKey))
        key   == ParsePKIXPublicKey(block)
    IN  IF block = Nil THEN Fail("error parsing PEM block with GitHub public key")
        ELSE IF key = Nil THEN Fail("x509 parse error")
        ELSE IF key \notin EcKeys THEN Fail("GitHub key is not ECDSA")
        ELSE Ok(key)

fetchPublicKey(r) ==
    IF r.err THEN Fail("failed to fetch public key: transport")
    ELSE IF r.status # StatusOK THEN Fail("failed to fetch public key: status")
    ELSE IF ~r.json THEN Fail("failed to decode public key")
    ELSE LET rawKey == selectCurrent(r.public_keys)
         IN  IF rawKey = EmptyText THEN Fail("could not find current public key")
             ELSE decodeKey(rawKey)

\* The error taxonomy of the key acquisition layer, by return site.
KeyErrorClass(site) ==
    CASE site \in {"failed to fetch public key: transport",
                   "failed to fetch public key: status"} -> "KeyUnavailable"
      [] site \in {"failed to decode public key",
                   "could not find current public key"} -> "KeyFormatError"
      [] site \in {"error parsing PEM block with GitHub public key",
                   "x509 parse error",
                   "GitHub key is not ECDSA"} -> "KeyDecodeError"
      [] OTHER -> "none"

NotCalled == [key |-> Nil, err |-> "not called"]

\* ------------------------------------------------------------------------
\* convertDocx (main.go:145-201)
\* ------------------------------------------------------------------------

\* A directory entry: its name split where filepath.Ext splits it.
ProcessedDir == [stem |-> 0, ext |-> ""]
UserFiles == [stem : 1..MaxFiles, ext : {".docx", ".txt"}]

\* filepath.Ext(file.Name())
Ext(f) == f.ext

\* strings.TrimSuffix(file.Name(), ".docx") + ".md"
outputFileName(f) == [stem |-> f.stem, ext |-> ".md"]

\* os.ReadDir returns the entries sorted by filename: "1.docx" < "1.txt" <
\* "2.docx" < ... < "processed".
NameRank(f) ==
    IF f = ProcessedDir THEN 2 * (MaxFiles + 2)
    ELSE 2 * f.stem + (IF f.ext = ".docx" THEN 0 ELSE 1)

RECURSIVE SortedListing(_)
SortedListing(S) ==
    IF S = {} THEN <<>>
    ELSE LET first == CHOOSE f \in S : \A g \in S : NameRank(f) <= NameRank(g)
         IN  <<first>> \o SortedListing(S \ {first})

Op(name, f, ok) == [op |-> name, file |-> f, ok |-> ok]

\* file.Name(), and the paths filepath.Join builds from it
FileName(f) == IF f.ext = "" THEN "processed" ELSE ToString(f.stem) \o f.ext
inputFilePath(f) == "documents/" \o FileName(f)
outputFilePath(f) == "data/" \o FileName(outputFileName(f))

\* convertDocx touches nothing of the process but its output.
docxFrame ==
    UNCHANGED <<fetchVars, oauthVars, pc, env, exitCode, pubKey, runErr, config,
                handlers, agentKey, platformKey, rotations, fetchCount, reqs>>

\* os.MkdirAll(outputDir, os.ModePerm), main.go:151-153
DocxMkdirOut ==
    /\ dpc = "mkdir_out"
    /\ \E ok \in BOOLEAN :
         IF ok
         THEN /\ dpc' = "mkdir_proc"
              /\ UNCHANGED docxErr
         ELSE /\ dpc' = "done"
              /\ docxErr' = "impossibile creare la cartella di output"
    /\ UNCHANGED <<documents, data, processed, files, idx, text, ops, failures>>
    /\ UNCHANGED stdout
    /\ docxFrame

\* os.MkdirAll(processedDir, os.ModePerm), main.go:154-156
DocxMkdirProcessed ==
    /\ dpc = "mkdir_proc"
    /\ \E ok \in BOOLEAN :
         IF ok
         THEN /\ dpc' = "readdir"
              /\ documents' = documents \cup {ProcessedDir}
              /\ UNCHANGED docxErr
         ELSE /\ dpc' = "done"
              /\ docxErr' = "impossibile creare la cartella processed"
              /\ UNCHANGED documents
    /\ UNCHANGED <<data, processed, files, idx, text, ops, failures>>
    /\ UNCHANGED stdout
    /\ docxFrame

\* os.ReadDir(inputDir), main.go:159-162
DocxReadDir ==
    /\ dpc = "readdir"
    /\ \E ok \in BOOLEAN :
         IF ok
         THEN /\ dpc' = "loop"
              /\ files' = SortedListing(documents)
              /\ idx' = 1
              /\ UNCHANGED docxErr
         ELSE /\ dpc' = "done"
              /\ docxErr' = "impossibile leggere la cartella"
              /\ UNCHANGED <<files, idx>>
    /\ UNCHANGED <<documents, data, processed, text, ops, failures>>
    /\ UNCHANGED stdout
    /\ docxFrame

\* The loop head and the extension filter, main.go:164-171; `return nil`
\* (main.go:200) once the listing is exhausted.
DocxLoopSkip ==
    /\ dpc = "loop"
    /\ idx <= Len(files)
    /\ Ext(files[idx]) # ".docx"
    /\ idx' = idx + 1
    /\ UNCHANGED <<dpc, documents, data, processed, files, text, docxErr, ops, failures>>
    /\ UNCHANGED stdout
    /\ docxFrame

DocxLoopEnter ==
    /\ dpc = "loop"
    /\ idx <= Len(files)
    /\ Ext(files[idx]) = ".docx"
    /\ dpc' = "extract"
    /\ stdout' = Append(stdout, Line("Elaborazione del file:", inputFilePath(files[idx])))
    /\ UNCHANGED <<idx, documents, data, processed, files, text, docxErr, ops, failures>>
    /\ docxFrame

DocxReturn ==
    /\ dpc = "loop"
    /\ idx > Len(files)
    /\ dpc' = "done"
    /\ docxErr' = Nil
    /\ UNCHANGED <<idx, documents, data, processed, files, text, ops, failures>>
    /\ UNCHANGED stdout
    /\ docxFrame

\* Variant of DocxExtract: an extraction error is returned.
DocxExtractAborting ==
    /\ dpc = "extract"
    /\ \E ok \in BOOLEAN :
         /\ ops' = Append(ops, Op("extract", files[idx], ok))
         /\ IF ok
            THEN /\ text' = files[idx]
                 /\ UNCHANGED stdout
                 /\ dpc' = "write"
                 /\ UNCHANGED <<idx, failures, docxErr>>
            ELSE /\ failures' = failures \cup {files[idx]}
                 /\ stdout' = Append(stdout, Line("Errore nell'elaborazione del file",
                                                  inputFilePath(files[idx])))
                 /\ dpc' = "done"
                 /\ docxErr' = "impossibile aprire il file .docx"
                 /\ UNCHANGED <<idx, text>>
    /\ UNCHANGED <<documents, data, processed, files>>
    /\ docxFrame

\* extractTextFromDocx(inputFilePath), main.go:174-178 (and 204-241): on an
\* error the loop continues with the next file.
DocxExtract ==
    /\ dpc = "extract"
    /\ \E ok \in BOOLEAN :
         /\ ops' = Append(ops, Op("extract", files[idx], ok))
         /\ IF ok
            THEN /\ text' = files[idx]
                 /\ UNCHANGED stdout
                 /\ dpc' = "write"
                 /\ UNCHANGED <<idx, failures>>
            ELSE /\ failures' = failures \cup {files[idx]}
                 /\ stdout' = Append(stdout, Line("Errore nell'elaborazione del file",
                                                  inputFilePath(files[idx])))
                 /\ dpc' = "loop"
                 /\ idx' = idx + 1
                 /\ UNCHANGED text
    /\ UNCHANGED <<documents, data, processed, files, docxErr>>
    /\ docxFrame

\* os.WriteFile(outputFilePath, []byte(text), 0644), main.go:181-187
DocxWrite ==
    /\ dpc = "write"
    /\ \E ok \in BOOLEAN :
         /\ ops' = Append(ops, Op("write", outputFileName(files[idx]), ok))
         /\ IF ok
            THEN /\ data' = data \cup {outputFileName(files[idx])}
                 /\ dpc' = "rename"
                 /\ UNCHANGED stdout
                 /\ UNCHANGED <<idx, failures>>
            ELSE /\ failures' = failures \cup {files[idx]}
                 /\ stdout' = Append(stdout, Line("Errore nella scrittura del file",
                                                  outputFilePath(files[idx])))
                 /\ dpc' = "loop"
                 /\ idx' = idx + 1
                 /\ UNCHANGED data
    /\ UNCHANGED <<documents, processed, files, text, docxErr>>
    /\ docxFrame

\* os.Rename(inputFilePath, processedFilePath), main.go:190-197
DocxRename ==
    /\ dpc = "rename"
    /\ \E ok \in BOOLEAN :
         /\ ops' = Append(ops, Op("rename", files[idx], ok))
         /\ IF ok
            THEN /\ documents' = documents \ {files[idx]}
                 /\ processed' = processed \cup {files[idx]}
                 /\ UNCHANGED failures
                 /\ stdout' = Append(stdout, Line("File convertito e salvato:",
                                                  outputFilePath(files[idx])))
            ELSE /\ failures' = failures \cup {files[idx]}
                 /\ stdout' = Append(stdout, Line("Errore nello spostamento del file",
                                                  inputFilePath(files[idx])))
                 /\ UNCHANGED <<documents, processed>>
    /\ dpc' = "loop"
    /\ idx' = idx + 1
    /\ UNCHANGED <<data, files, text, docxErr>>
    /\ docxFrame

convertDocx ==
    \/ DocxMkdirOut
    \/ DocxMkdirProcessed
    \/ DocxReadDir
    \/ DocxLoopSkip
    \/ DocxLoopEnter
    \/ DocxReturn
    \/ DocxExtract
    \/ DocxWrite
    \/ DocxRename

\* ------------------------------------------------------------------------
\* config.New (config/info.go:30-61)
\* ------------------------------------------------------------------------

portEnv         == "PORT"
clientIdEnv     == "CLIENT_ID"
clientSecretEnv == "CLIENT_SECRET"
fqdnEnv         == "FQDN"
EnvNames == {portEnv, fqdnEnv, clientIdEnv, clientSecretEnv}

\* os.Getenv returns "" for a variable that is unset and for one set to "".
Environments ==
    {e \in [EnvNames -> {"", "8080", "https://example.com", "%zz", "Iv1.id", "s3cret"}] :
        /\ e[portEnv] \in {"", "8080"}
        /\ e[fqdnEnv] \in {"", "https://example.com", "%zz"}
        /\ e[clientIdEnv] \in {"", "Iv1.id"}
        /\ e[clientSecretEnv] \in {"", "s3cret"}}

\* The nil *Info.
NilInfo == [Port |-> Nil, FQDN |-> Nil, ClientID |-> Nil, ClientSecret |-> Nil]

\* fmt.Errorf("%s environment variable required", name)
required(name) == name \o " environment variable required"

\* Variant of configNew: no variable is checked.
configNewUnchecked(e) ==
    [info |-> [Port |-> e[portEnv], FQDN |-> e[fqdnEnv],
               ClientID |-> e[clientIdEnv], ClientSecret |-> e[clientSecretEnv]],
     err  |-> Nil,
     out  |-> <<Line("PORT:", e[portEnv]), Line("FQDN:", e[fqdnEnv]),
                Line("CLIENT_ID:", e[clientIdEnv]),
                Line("CLIENT_SECRET:", e[clientSecretEnv])>>]

\* The returned *Info (Nil on error), the error, and the lines fmt.Println
\* wrote on the way.
configNew(e) ==
    LET port         == e[portEnv]
        fqdn         == e[fqdnEnv]
        clientID     == e[clientIdEnv]
        clientSecret == e[clientSecretEnv]
        l1 == <<Line("PORT:", port)>>
        l2 == Append(l1, Line("FQDN:", fqdn))
        l3 == Append(l2, Line("CLIENT_ID:", clientID))
        l4 == Append(l3, Line("CLIENT_SECRET:", clientSecret))
    IN  IF port = "" THEN [info |-> NilInfo, err |-> required(portEnv), out |-> <<>>]
        ELSE IF fqdn = "" THEN [info |-> NilInfo, err |-> required(fqdnEnv), out |-> l1]
        ELSE IF clientID = "" THEN [info |-> NilInfo, err |-> required(clientIdEnv), out |-> l2]
        ELSE IF clientSecret = ""
             THEN [info |-> NilInfo, err |-> required(clientSecretEnv), out |-> l3]
        ELSE [info |-> [Port |-> port, FQDN |-> fqdn,
                        ClientID |-> clientID, ClientSecret |-> clientSecret],
              err  |-> Nil,
              out  |-> l4]

\* ------------------------------------------------------------------------
\* main and run (main.go:25-65)
\* ------------------------------------------------------------------------

NoExit == -1

\* url.Parse(config.FQDN): an invalid percent-escape is a parse error.
urlParseFails(fqdn) == fqdn = "%zz"

Wrap(msg, cause) == [msg |-> msg, cause |-> cause]
NoError == Wrap(Nil, Nil)

\* The entries the platform marks current carry the key it signs with;
\* everything else about the response (transport, status, body, other
\* entries, damaged key material) is unconstrained.
PlatformResponses(k) ==
    {r \in Responses :
        \A i \in 1..Len(r.public_keys) :
            (r.public_keys[i].is_current /\ r.public_keys[i].key.der \in EcKeys)
                => r.public_keys[i].key.der = k}

\* What fetchPublicKey can return while the platform signs with k.
FetchOutcomes == [k \in EcKeys |-> {fetchPublicKey(r) : r \in PlatformResponses(k)}]

procFrame == UNCHANGED <<fetchVars, docxVars, oauthVars>>

\* main.go:27-29: log.Fatalf on an error of convertDocx, else on to run().
MainAfterConvert ==
    /\ pc = "convert"
    /\ dpc = "done"
    /\ IF docxErr # Nil
       THEN /\ stdout' = Append(stdout, Line("Errore durante la conversione:", docxErr))
            /\ exitCode' = 1
            /\ pc' = "exited"
       ELSE /\ pc' = "run_fetch"
            /\ UNCHANGED <<stdout, exitCode>>
    /\ UNCHANGED <<env, pubKey, runErr, config, handlers, agentKey, platformKey,
                   rotations, fetchCount, reqs>>
    /\ procFrame

\* Variant of RunFetch: the error of fetchPublicKey is dropped.
RunFetchIgnoringError ==
    /\ pc = "run_fetch"
    /\ \E res \in FetchOutcomes[platformKey] :
         /\ fetchCount' = fetchCount + 1
         /\ pubKey' = res.key
         /\ pc' = "run_config"
         /\ UNCHANGED runErr
    /\ UNCHANGED <<env, stdout, exitCode, config, handlers, agentKey, platformKey,
                   rotations, reqs>>
    /\ procFrame

\* Variant of RunFetch: the error is recorded but run goes on.
RunFetchContinuing ==
    /\ pc = "run_fetch"
    /\ \E res \in FetchOutcomes[platformKey] :
         /\ fetchCount' = fetchCount + 1
         /\ pubKey' = res.key
         /\ pc' = "run_config"
         /\ runErr' = IF res.err # Nil
                      THEN Wrap("failed to fetch public key", res.err)
                      ELSE runErr
    /\ UNCHANGED <<env, stdout, exitCode, config, handlers, agentKey, platformKey,
                   rotations, reqs>>
    /\ procFrame

\* main.go:38-41
RunFetch ==
    /\ pc = "run_fetch"
    /\ \E res \in FetchOutcomes[platformKey] :
         /\ fetchCount' = fetchCount + 1
         /\ IF res.err # Nil
            THEN /\ runErr' = Wrap("failed to fetch public key", res.err)
                 /\ pc' = "run_returned"
                 /\ UNCHANGED pubKey
            ELSE /\ pubKey' = res.key
                 /\ pc' = "run_config"
                 /\ UNCHANGED runErr
    /\ UNCHANGED <<env, stdout, exitCode, config, handlers, agentKey, platformKey,
                   rotations, reqs>>
    /\ procFrame

\* main.go:43-46
RunConfig ==
    /\ pc = "run_config"
    /\ LET c == configNew(env)
       IN  /\ stdout' = stdout \o c.out
           /\ IF c.err # Nil
              THEN /\ runErr' = Wrap("error fetching config", c.err)
                   /\ pc' = "run_returned"
                   /\ UNCHANGED config
              ELSE /\ config' = c.info
                   /\ pc' = "run_parse"
                   /\ UNCHANGED runErr
    /\ UNCHANGED <<env, exitCode, pubKey, handlers, agentKey, platformKey,
                   rotations, fetchCount, reqs>>
    /\ procFrame

\* main.go:48-51
RunParse ==
    /\ pc = "run_parse"
    /\ IF urlParseFails(config.FQDN)
       THEN /\ runErr' = Wrap("unable to parse HOST environment variable", config.FQDN)
            /\ pc' = "run_returned"
       ELSE /\ pc' = "run_register"
            /\ UNCHANGED runErr
    /\ UNCHANGED <<env, stdout, exitCode, pubKey, config, handlers, agentKey,
                   platformKey, rotations, fetchCount, reqs>>
    /\ procFrame

\* Variant of RunRegister: the service is built from a second fetch.
RunRegisterFetchingAgain ==
    /\ pc = "run_register"
    /\ handlers' = {"/auth/authorization", "/auth/callback", "/agent"}
    /\ agentKey' = platformKey
    /\ fetchCount' = fetchCount + 1
    /\ pc' = "run_listen"
    /\ UNCHANGED <<env, stdout, exitCode, pubKey, runErr, config, platformKey,
                   rotations, reqs>>
    /\ procFrame

\* main.go:53-61: the three http.HandleFunc calls; agent.NewService(pubKey)
\* hands the service the key, and nothing with which to fetch another.
RunRegister ==
    /\ pc = "run_register"
    /\ handlers' = {"/auth/authorization", "/auth/callback", "/agent"}
    /\ agentKey' = pubKey
    /\ pc' = "run_listen"
    /\ UNCHANGED <<env, stdout, exitCode, pubKey, runErr, config, platformKey,
                   rotations, fetchCount, reqs>>
    /\ procFrame

\* main.go:63-64: ListenAndServe blocks while it serves and returns an error
\* when it cannot listen.
RunListen ==
    /\ pc = "run_listen"
    /\ stdout' = Append(stdout, Line("Listening on port", config.Port))
    /\ \E ok \in BOOLEAN :
         IF ok
         THEN /\ pc' = "listening"
              /\ UNCHANGED runErr
         ELSE /\ runErr' = Wrap("listen", config.Port)
              /\ pc' = "run_returned"
    /\ UNCHANGED <<env, exitCode, pubKey, config, handlers, agentKey, platformKey,
                   rotations, fetchCount, reqs>>
    /\ procFrame

\* Variant of MainExit: run is started again after an error.
MainExitRetrying ==
    /\ pc = "run_returned"
    /\ stdout' = Append(stdout, Line(runErr.msg, runErr.cause))
    /\ IF fetchCount < 2
       THEN /\ pc' = "run_fetch"
            /\ UNCHANGED exitCode
       ELSE /\ exitCode' = 1
            /\ pc' = "exited"
    /\ UNCHANGED <<env, pubKey, runErr, config, handlers, agentKey, platformKey,
                   rotations, fetchCount, reqs>>
    /\ procFrame

\* main.go:31-34: fmt.Println(err); os.Exit(1)
MainExit ==
    /\ pc = "run_returned"
    /\ stdout' = Append(stdout, Line(runErr.msg, runErr.cause))
    /\ exitCode' = 1
    /\ pc' = "exited"
    /\ UNCHANGED <<env, pubKey, runErr, config, handlers, agentKey, platformKey,
                   rotations, fetchCount, reqs>>
    /\ procFrame

\* ------------------------------------------------------------------------
\* POST /agent: the handler registered at main.go:59-61
\* ------------------------------------------------------------------------

Requests == 1..MaxRequests

\* The signature header: absent or wrongly encoded ("missing"), or a
\* signature made with some private key; "attacker" is a key the platform
\* never published. tampered: the body is not the one that was signed.
Signers == {"missing", "attacker"} \cup EcKeys

NoRequest ==
    [stage |-> "none", sig |-> "missing", tampered |-> FALSE, genuine |-> FALSE,
     verdict |-> "undecided", status |-> 0, downstream |-> FALSE,
     fetchesBefore |-> 0, fetchesAfter |-> 0]

\* SignatureVerifier.verify(body, signatureHeader, key)
verify(sig, tampered, key) ==
    IF sig = "missing" THEN "Malformed"
    ELSE IF sig = key /\ ~tampered THEN "Trusted"
    ELSE "Untrusted"

\* A client sends POST /agent. While the process is not listening the
\* connection is refused and no handler runs; otherwise the handler starts
\* and reads the body.
ClientSend(r) ==
    /\ reqs[r].stage = "none"
    /\ IF pc = "listening" /\ "/agent" \in handlers
       THEN \E s \in Signers, t \in BOOLEAN :
              reqs' = [reqs EXCEPT ![r] =
                         [NoRequest EXCEPT !.stage = "received", !.sig = s,
                                           !.tampered = t,
                                           !.genuine = (s = platformKey /\ ~t),
                                           !.fetchesBefore = fetchCount,
                                           !.fetchesAfter = fetchCount]]
       ELSE reqs' = [reqs EXCEPT ![r] = [NoRequest EXCEPT !.stage = "refused"]]
    /\ UNCHANGED <<pc, env, stdout, exitCode, pubKey, runErr, config, handlers,
                   agentKey, platformKey, rotations, fetchCount>>
    /\ procFrame

\* agentService.ChatCompletion: verify with the service's key, then either
\* hand the request to the chat-completion logic or answer 401.
ChatCompletion(r) ==
    /\ reqs[r].stage = "received"
    /\ LET v == verify(reqs[r].sig, reqs[r].tampered, agentKey)
       IN  reqs' = [reqs EXCEPT ![r].stage = "done",
                                ![r].verdict = v,
                                ![r].downstream = (v = "Trusted"),
                                ![r].status = IF v = "Trusted" THEN 200 ELSE 401,
                                ![r].fetchesAfter = fetchCount]
    /\ UNCHANGED <<pc, env, stdout, exitCode, pubKey, runErr, config, handlers,
                   agentKey, platformKey, rotations, fetchCount>>
    /\ procFrame

\* The platform rotates its signing key. A rotation before run() starts is
\* the choice of the initial platformKey, and one after the process has
\* exited is seen by nobody.
RotateKey ==
    /\ rotations < MaxRotations
    /\ pc \notin {"convert", "exited"}
    /\ \E k \in EcKeys \ {platformKey} : platformKey' = k
    /\ rotations' = rotations + 1
    /\ UNCHANGED <<pc, env, stdout, exitCode, pubKey, runErr, config, handlers,
                   agentKey, fetchCount, reqs>>
    /\ procFrame

\* ------------------------------------------------------------------------
\* GET /auth/authorization and GET /auth/callback: the handlers registered
\* at main.go:55-57
\* ------------------------------------------------------------------------

Tokens == 1..MaxTokens
Callbacks == 1..MaxCallbacks

NoCallback == [stage |-> "idle", state |-> 0, outcome |-> "none"]

oauthFrame == UNCHANGED <<fetchVars, docxVars, procVars>>

\* Pre-auth step: a fresh state token is recorded as a live attempt.
PreAuth ==
    /\ pc = "listening" /\ "/auth/authorization" \in handlers
    /\ issued < MaxTokens
    /\ issued' = issued + 1
    /\ store' = store \cup {issued + 1}
    /\ UNCHANGED <<expired, cbs>>
    /\ oauthFrame

\* Variant of PostAuthCheck: the attempt is found but not deleted.
PostAuthCheckWithoutDelete(c) ==
    /\ pc = "listening" /\ "/auth/callback" \in handlers
    /\ cbs[c].stage = "idle"
    /\ \E t \in 0..issued :
         IF t \in store
         THEN cbs' = [cbs EXCEPT ![c] = [stage |-> "exchanging", state |-> t, outcome |-> "none"]]
         ELSE cbs' = [cbs EXCEPT ![c] = [stage |-> "done", state |-> t, outcome |-> "StateMismatch"]]
    /\ UNCHANGED <<store, issued, expired>>
    /\ oauthFrame

\* Callback step, first half: the existence check and the deletion of the
\* attempt. The browser presents a token that was issued, or a forgery
\* (0): state tokens are random, so none is presented before it is issued.
PostAuthCheck(c) ==
    /\ pc = "listening" /\ "/auth/callback" \in handlers
    /\ cbs[c].stage = "idle"
    /\ \E t \in 0..issued :
         IF t \in store
         THEN /\ store' = store \ {t}
              /\ cbs' = [cbs EXCEPT ![c] = [stage |-> "exchanging", state |-> t, outcome |-> "none"]]
         ELSE /\ cbs' = [cbs EXCEPT ![c] = [stage |-> "done", state |-> t, outcome |-> "StateMismatch"]]
              /\ UNCHANGED store
    /\ UNCHANGED <<issued, expired>>
    /\ oauthFrame

\* Callback step, second half: the code is exchanged for an access token.
PostAuthExchange(c) ==
    /\ cbs[c].stage = "exchanging"
    /\ \E ok \in BOOLEAN :
         cbs' = [cbs EXCEPT ![c].stage = "done",
                            ![c].outcome = IF ok THEN "Authorized" ELSE "ExchangeFailed"]
    /\ UNCHANGED <<store, issued, expired>>
    /\ oauthFrame

\* Expiry: an attempt not completed within the window is evicted.
Expire ==
    /\ pc = "listening"
    /\ \E t \in store :
         /\ store' = store \ {t}
         /\ expired' = expired \cup {t}
    /\ UNCHANGED <<issued, cbs>>
    /\ oauthFrame

\* ------------------------------------------------------------------------
\* Specifications
\* ------------------------------------------------------------------------

FetchIdle ==
    /\ resp = [err |-> TRUE, status |-> 0, json |-> FALSE, public_keys |-> <<>>]
    /\ fetched = NotCalled

DocxStart ==
    /\ dpc = "mkdir_out"
    /\ data = {}
    /\ processed = {}
    /\ files = <<>>
    /\ idx = 0
    /\ text = ProcessedDir
    /\ docxErr = Nil
    /\ ops = <<>>
    /\ failures = {}

ProcStart ==
    /\ pc = "convert"
    /\ stdout = <<>>
    /\ exitCode = NoExit
    /\ pubKey = Nil
    /\ runErr = NoError
    /\ config = NilInfo
    /\ handlers = {}
    /\ agentKey = Nil
    /\ platformKey \in EcKeys
    /\ rotations = 0
    /\ fetchCount = 0
    /\ reqs = [r \in Requests |-> NoRequest]

OAuthIdle ==
    /\ store = {}
    /\ issued = 0
    /\ expired = {}
    /\ cbs = [c \in Callbacks |-> NoCallback]

\* fetchPublicKey on every response.
FetchCall ==
    /\ fetched = NotCalled
    /\ fetched' = fetchPublicKey(resp)
    /\ UNCHANGED <<resp, docxVars, procVars, oauthVars>>

InitFetch ==
    /\ resp \in Responses
    /\ fetched = NotCalled
    /\ DocxStart /\ documents = {}
    /\ ProcStart /\ env = [n \in EnvNames |-> ""]
    /\ OAuthIdle

NextFetch == FetchCall

SpecFetch == InitFetch /\ [][NextFetch]_vars

\* convertDocx on every content of ./documents.
InitDocx ==
    /\ FetchIdle
    /\ DocxStart
    /\ documents \in {S \in SUBSET UserFiles : Cardinality(S) <= MaxFiles}
    /\ ProcStart /\ env = [n \in EnvNames |-> ""]
    /\ OAuthIdle

NextDocx == convertDocx

SpecDocx == InitDocx /\ [][NextDocx]_vars

\* The process, from main() on, with one document and one other file in
\* ./documents and every environment.
Init ==
    /\ FetchIdle
    /\ DocxStart
    /\ documents = {[stem |-> 1, ext |-> ".docx"], [stem |-> 1, ext |-> ".txt"]}
    /\ ProcStart
    /\ env \in Environments
    /\ OAuthIdle

Next ==
    \/ convertDocx
    \/ MainAfterConvert
    \/ RunFetch
    \/ RunConfig
    \/ RunParse
    \/ RunRegister
    \/ RunListen
    \/ MainExit
    \/ RotateKey
    \/ \E r \in Requests : ClientSend(r)
    \/ \E r \in Requests : ChatCompletion(r)

Spec == Init /\ [][Next]_vars

\* The OAuth handlers of a process that is listening.
ValidEnv ==
    [n \in EnvNames |->
        CASE n = portEnv -> "8080"
          [] n = fqdnEnv -> "https://example.com"
          [] n = clientIdEnv -> "Iv1.id"
          [] n = clientSecretEnv -> "s3cret"]

InitOAuth ==
    /\ FetchIdle
    /\ DocxStart /\ documents = {}
    /\ pc = "listening"
    /\ env = ValidEnv
    /\ stdout = configNew(ValidEnv).out
    /\ exitCode = NoExit
    /\ pubKey \in EcKeys
    /\ runErr = NoError
    /\ config = configNew(ValidEnv).info
    /\ handlers = {"/auth/authorization", "/auth/callback", "/agent"}
    /\ agentKey = pubKey
    /\ platformKey = pubKey
    /\ rotations = 0
    /\ fetchCount = 1
    /\ reqs = [r \in Requests |-> NoRequest]
    /\ OAuthIdle

NextOAuth ==
    \/ PreAuth
    \/ \E c \in Callbacks : PostAuthCheck(c)
    \/ \E c \in Callbacks : PostAuthExchange(c)
    \/ Expire

SpecOAuth == InitOAuth /\ [][NextOAuth]_vars

\* ------------------------------------------------------------------------
\* Properties
\* ------------------------------------------------------------------------

Served(r) == reqs[r].stage \in {"received", "done"}
Done(r) == reqs[r].stage = "done"

\* C1: the chat-completion logic sees a request only after verification of
\* that request returned Trusted (never one that is Untrusted, Malformed or
\* undecided), and the /agent handler is only ever registered and served
\* with a key that fetchPublicKey returned without error.
C1_VerifyBeforeTrust ==
    /\ \A r \in Requests :
         reqs[r].downstream =>
            /\ Done(r)
            /\ reqs[r].verdict = "Trusted"
            /\ verify(reqs[r].sig, reqs[r].tampered, pubKey) = "Trusted"
    /\ \A r \in Requests : Served(r) => agentKey \in EcKeys
    /\ "/agent" \in handlers =>
            /\ agentKey \in EcKeys
            /\ agentKey = pubKey
            /\ runErr.msg # "failed to fetch public key"

C1_Witness ==
    \E r1, r2 \in Requests :
        /\ Done(r1) /\ reqs[r1].downstream /\ reqs[r1].verdict = "Trusted"
        /\ Done(r2) /\ ~reqs[r2].downstream /\ reqs[r2].verdict = "Untrusted"

FirstCurrentIndex(keys) ==
    IF \E i \in 1..Len(keys) : keys[i].is_current
    THEN CHOOSE i \in 1..Len(keys) :
            /\ keys[i].is_current
            /\ \A j \in 1..(i - 1) : ~keys[j].is_current
    ELSE 0

\* C2: the key fetchPublicKey returns is the key of the first entry of
\* public_keys whose is_current is true; an entry with is_current false is
\* never the one returned, and with no entry marked current no key is
\* returned.
C2_FirstCurrentKey ==
    fetched # NotCalled =>
       LET i == FirstCurrentIndex(resp.public_keys)
       IN  /\ fetched.key # Nil =>
                /\ i > 0
                /\ resp.public_keys[i].is_current
                /\ resp.public_keys[i].key.der = fetched.key
           /\ i = 0 => fetched.key = Nil

C2_Witness ==
    /\ fetched # NotCalled
    /\ fetched.key \in EcKeys
    /\ Len(resp.public_keys) = 2
    /\ ~resp.public_keys[1].is_current
    /\ resp.public_keys[1].key.der \in EcKeys \ {fetched.key}
    /\ resp.public_keys[1].key.armor

\* The classification C3 states, read off the response.
C3_Expected(r) ==
    IF r.err \/ r.status # StatusOK THEN "KeyUnavailable"
    ELSE IF ~r.json \/ FirstCurrentIndex(r.public_keys) = 0 THEN "KeyFormatError"
    ELSE LET t == r.public_keys[FirstCurrentIndex(r.public_keys)].key
         IN  IF ~t.armor \/ t.der \notin EcKeys THEN "KeyDecodeError" ELSE "none"

\* C3: every failure of fetchPublicKey is KeyUnavailable (transport error
\* or status other than 200), else KeyFormatError (body not JSON, or no
\* entry marked current), else KeyDecodeError (the current entry's key
\* material is not a PEM-wrapped PKIX ECDSA key, empty material included);
\* a key is returned exactly when none of these holds.
C3_ErrorClassification ==
    fetched # NotCalled =>
       /\ KeyErrorClass(fetched.err) = C3_Expected(resp)
       /\ (fetched.key # Nil) = (C3_Expected(resp) = "none")

FetchFailed == runErr.msg = "failed to fetch public key"

KeyStale(r) ==
    /\ reqs[r].sig # "missing"
    /\ verify(reqs[r].sig, reqs[r].tampered, pubKey) # "Trusted"

FetchesDuring(r) == reqs[r].fetchesAfter - reqs[r].fetchesBefore

TokenPassed(c) ==
    \/ cbs[c].stage = "exchanging"
    \/ cbs[c].outcome \in {"Authorized", "ExchangeFailed"}

Presented(t) == {c \in Callbacks : cbs[c].stage # "idle" /\ cbs[c].state = t}

Secret == env[clientSecretEnv]

\* C7: on every run that ends in an error, no line of output holds the
\* value of CLIENT_SECRET.
C7_NoSecretOnErrorPaths ==
    (pc = "exited" /\ exitCode = 1 /\ Secret # "") =>
        \A i \in DOMAIN stdout : stdout[i].value # Secret

SomeUnset == \E n \in EnvNames : env[n] = ""

\* C8: when PORT, FQDN, CLIENT_ID or CLIENT_SECRET is unset or empty,
\* config.New returns an error and no Info, run returns that error, and no
\* handler is registered and the server never listens; an Info that
\* config.New does return has all four fields non-empty and equal to the
\* environment's values.
C8_ConfigRequired ==
    /\ SomeUnset =>
          /\ config = NilInfo
          /\ configNew(env).info = NilInfo
          /\ configNew(env).err # Nil
          /\ handlers = {}
          /\ pc \notin {"run_parse", "run_register", "run_listen", "listening"}
          /\ (pubKey # Nil /\ pc \in {"run_returned", "exited"}) =>
                runErr = Wrap("error fetching config", configNew(env).err)
    /\ config # NilInfo =>
          /\ config = [Port |-> env[portEnv], FQDN |-> env[fqdnEnv],
                       ClientID |-> env[clientIdEnv],
                       ClientSecret |-> env[clientSecretEnv]]
          /\ ~SomeUnset

C8_Witness ==
    /\ pc = "exited"
    /\ env[portEnv] # "" /\ env[fqdnEnv] # "" /\ env[clientIdEnv] # ""
    /\ env[clientSecretEnv] = ""
    /\ runErr = Wrap("error fetching config", "CLIENT_SECRET environment variable required")
    /\ handlers = {}

\* C9: the key-listing endpoint is called once, in run before the server
\* listens, and never again; the key held by the agent service is the one
\* fetched at startup and is never replaced, whatever requests arrive and
\* however the platform rotates its key.
C9_KeyFetchedOnce ==
    [][ /\ fetchCount' <= 1
        /\ fetchCount' # fetchCount => (pc = "run_fetch" /\ fetchCount = 0)
        /\ pubKey # Nil => pubKey' = pubKey
        /\ agentKey # Nil => agentKey' = agentKey
        /\ pc' = "listening" => (fetchCount' = 1 /\ agentKey' = pubKey' /\ agentKey' \in EcKeys)
      ]_vars

C9_Witness ==
    /\ pc = "listening"
    /\ rotations > 0
    /\ agentKey # platformKey
    /\ fetchCount = 1
    /\ \E r \in Requests : Done(r) /\ reqs[r].genuine /\ reqs[r].verdict = "Untrusted"

IsFailed(o) == o.op \in {"extract", "write"} /\ ~o.ok

\* C10: a .docx file is renamed into processed only after its text was
\* extracted and its .md written, both successfully; when extraction or
\* the write fails the file stays in ./documents and no rename is tried; a
\* failure on one file neither stops the loop nor makes convertDocx return
\* an error, which only a failure to create or read the directories does;
\* files without the .docx extension are never read, written or moved.
C10_ConvertOrdering ==
    /\ \A i \in DOMAIN ops :
         ops[i].op = "rename" =>
            \E j, k \in 1..(i - 1) :
                /\ j < k
                /\ ops[j] = Op("extract", ops[i].file, TRUE)
                /\ ops[k] = Op("write", outputFileName(ops[i].file), TRUE)
    /\ \A f \in processed : \E i \in DOMAIN ops : ops[i] = Op("rename", f, TRUE)
    /\ \A f \in data : \E i \in DOMAIN ops : ops[i] = Op("write", f, TRUE)
    /\ \A i \in DOMAIN ops :
         IsFailed(ops[i]) =>
            LET f == [stem |-> ops[i].file.stem, ext |-> ".docx"]
            IN  /\ f \in documents
                /\ f \notin processed
                /\ \A j \in DOMAIN ops : ~(ops[j].op = "rename" /\ ops[j].file = f)
    /\ \A i \in DOMAIN ops :
         \E n \in DOMAIN files :
            /\ Ext(files[n]) = ".docx"
            /\ ops[i].file = IF ops[i].op = "write" THEN outputFileName(files[n]) ELSE files[n]
    /\ \A n \in DOMAIN files :
         Ext(files[n]) # ".docx" => (files[n] \in documents /\ files[n] \notin processed)
    /\ dpc = "done" =>
          \/ docxErr # Nil /\ ops = <<>> /\ files = <<>>
          \/ /\ docxErr = Nil
             /\ \A n \in DOMAIN files :
                   Ext(files[n]) = ".docx" =>
                      \E i \in DOMAIN ops : ops[i].op = "extract" /\ ops[i].file = files[n]

C10_Witness ==
    /\ dpc = "done"
    /\ docxErr = Nil
    /\ \E i, j \in DOMAIN ops :
         /\ i < j
         /\ ops[i].op = "extract" /\ ~ops[i].ok
         /\ ops[j].op = "rename" /\ ops[j].ok
    /\ \E f \in documents : Ext(f) = ".txt"
====
